---- MODULE Spec2Model ----
(***************************************************************************)
(* Model of src/src/App.tsx: the section classifier sortFilesIntoSections, *)
(* the two effects of App (S3 client initialisation, loadFiles) and the   *)
(* asynchronous download handler handleDownload over React state.         *)
(*                                                                         *)
(* Strings are sequences of one-character strings, so that the regular    *)
(* expression, the code-unit order of Array.prototype.sort() and the      *)
(* collation order of String.prototype.localeCompare are computed, not    *)
(* assumed.                                                                *)
(***************************************************************************)
EXTENDS Integers, Sequences, FiniteSets, TLC

VARIABLES
    env,               \* import.meta.env: which of the five values are present
    s3Client,          \* useState<S3Client | null>: TRUE when a client is set
    loading,           \* useState(true)
    error,             \* useState<string | null>: "null", "config" or "load"
    files,             \* useState<S3Object[]>
    fileSections,      \* useState<FileSection[]>
    pcInit,            \* position of the client-initialisation effect
    pcLoad,            \* position of loadFiles
    response,          \* what s3Client.send(command) answered in loadFiles
    downloadingFiles,  \* useState<Set<string>>
    downloadProgress,  \* useState<Map<string, number>>
    rendered,          \* the state values captured by the last render (closures, DOM)
    proc               \* one record per invocation of handleDownload

vars == <<env, s3Client, loading, error, files, fileSections, pcInit, pcLoad,
          response, downloadingFiles, downloadProgress, rendered, proc>>

------------------------------------------------------------------------------
(* Bounds *)

\* longest input sequence handed to sortFilesIntoSections on its own
MaxFiles == 3

\* number of invocations of handleDownload in one run
MaxInvocations == 2

\* largest content-length a response declares, in bytes
MaxTotal == 3

------------------------------------------------------------------------------
(* Characters and strings *)

Lower == <<"a","b","c","d","e","f","g","h","i","j","k","l","m",
           "n","o","p","q","r","s","t","u","v","w","x","y","z">>

Upper == <<"A","B","C","D","E","F","G","H","I","J","K","L","M",
           "N","O","P","Q","R","S","T","U","V","W","X","Y","Z">>

Range(s) == { s[i] : i \in DOMAIN s }

IndexOf(s, c) == CHOOSE i \in DOMAIN s : s[i] = c

\* [a-z]
IsLower(c) == c \in Range(Lower)

IsUpper(c) == c \in Range(Upper)

\* UTF-16 code unit of a character
CharCode(c) ==
    IF IsLower(c) THEN 96 + IndexOf(Lower, c)
    ELSE IF IsUpper(c) THEN 64 + IndexOf(Upper, c)
    ELSE CASE c = "-" -> 45
           [] c = "." -> 46
           [] c = "1" -> 49
           [] c = "_" -> 95

\* String.prototype.toUpperCase on one character
UpperChar(c) == IF IsLower(c) THEN Upper[IndexOf(Lower, c)] ELSE c

toUpperCase(s) == [i \in DOMAIN s |-> UpperChar(s[i])]

\* lexicographic "less than" of two sequences of numbers
RECURSIVE NumSeqLess(_, _)
NumSeqLess(s, t) ==
    IF t = <<>> THEN FALSE
    ELSE IF s = <<>> THEN TRUE
    ELSE IF Head(s) < Head(t) THEN TRUE
    ELSE IF Head(t) < Head(s) THEN FALSE
    ELSE NumSeqLess(Tail(s), Tail(t))

CodeUnits(s) == [i \in DOMAIN s |-> CharCode(s[i])]

\* the order of Array.prototype.sort() without a comparator: by code units
CodeUnitLess(s, t) == NumSeqLess(CodeUnits(s), CodeUnits(t))

\* Collation of localeCompare (CLDR root order on this alphabet): the primary
\* weight orders "_" < "-" < "." < digits < letters and ignores case, the
\* tertiary weight puts a lower-case letter before its upper-case form.
Primary(c) ==
    IF IsLower(c) THEN 10 + IndexOf(Lower, c)
    ELSE IF IsUpper(c) THEN 10 + IndexOf(Upper, c)
    ELSE CASE c = "_" -> 1
           [] c = "-" -> 2
           [] c = "." -> 3
           [] c = "1" -> 5

Tertiary(c) == IF IsUpper(c) THEN 1 ELSE 0

Primaries(s) == [i \in DOMAIN s |-> Primary(s[i])]

Tertiaries(s) == [i \in DOMAIN s |-> Tertiary(s[i])]

\* a.localeCompare(b): negative, zero or positive
localeCompare(a, b) ==
    IF NumSeqLess(Primaries(a), Primaries(b)) THEN -1
    ELSE IF NumSeqLess(Primaries(b), Primaries(a)) THEN 1
    ELSE IF NumSeqLess(Tertiaries(a), Tertiaries(b)) THEN -1
    ELSE IF NumSeqLess(Tertiaries(b), Tertiaries(a)) THEN 1
    ELSE 0

------------------------------------------------------------------------------
(* S3Object and sortFilesIntoSections *)

\* an S3Object: Key?: string (hasKey = FALSE is an undefined Key)
Obj(k) == [hasKey |-> TRUE, Key |-> k]

NoKeyObj == [hasKey |-> FALSE, Key |-> <<>>]

\* !file.Key is false: the key is defined and not the empty string
Truthy(file) == file.hasKey /\ file.Key # <<>>

\* file.Key.match(/^([a-z]{2})-/)
PrefixMatch(key) ==
    /\ Len(key) >= 3
    /\ IsLower(key[1])
    /\ IsLower(key[2])
    /\ key[3] = "-"

\* match[1]
PrefixOf(key) == <<key[1], key[2]>>

\* faulty variant: the comparator with its operands exchanged
CompareFilesReversed(a, b) == localeCompare(b.Key, a.Key)

\* (a, b) => (a.Key || '').localeCompare(b.Key || '')
CompareFiles(a, b) == localeCompare(a.Key, b.Key)

\* Array.prototype.sort(compare) is stable: x goes after the last item that
\* does not compare greater than it
RECURSIVE InsertFile(_, _)
InsertFile(x, s) ==
    IF s = <<>> THEN <<x>>
    ELSE IF CompareFiles(s[Len(s)], x) <= 0 THEN Append(s, x)
    ELSE Append(InsertFile(x, SubSeq(s, 1, Len(s) - 1)), s[Len(s)])

\* array.sort((a, b) => (a.Key || '').localeCompare(b.Key || ''))
RECURSIVE SortFiles(_)
SortFiles(s) ==
    IF s = <<>> THEN <<>>
    ELSE InsertFile(s[Len(s)], SortFiles(SubSeq(s, 1, Len(s) - 1)))

RECURSIVE InsertKey(_, _)
InsertKey(x, s) ==
    IF s = <<>> THEN <<x>>
    ELSE IF ~CodeUnitLess(x, s[Len(s)]) THEN Append(s, x)
    ELSE Append(InsertKey(x, SubSeq(s, 1, Len(s) - 1)), s[Len(s)])

\* the property names of the sections object, sorted by .sort()
RECURSIVE SortKeys(_)
SortKeys(S) ==
    IF S = {} THEN <<>>
    ELSE LET x == CHOOSE y \in S : TRUE IN InsertKey(x, SortKeys(S \ {x}))

\* files.forEach(...): the records pushed to sections[prefix], in input order
SectionBucket(fs, prefix) ==
    LET In(file) == Truthy(file) /\ PrefixMatch(file.Key) /\ PrefixOf(file.Key) = prefix
    IN  SelectSeq(fs, In)

\* faulty variant: the push to unsorted outside the else branch
UnsortedBucketAll(fs) ==
    LET In(file) == Truthy(file)
    IN  SelectSeq(fs, In)

\* the records pushed to unsorted, in input order
UnsortedBucket(fs) ==
    LET In(file) == Truthy(file) /\ ~PrefixMatch(file.Key)
    IN  SelectSeq(fs, In)

\* faulty variant: the prefixes in descending order
SortedPrefixesReversed(fs) ==
    LET keys == { PrefixOf(fs[i].Key) : i \in { j \in DOMAIN fs :
                      Truthy(fs[j]) /\ PrefixMatch(fs[j].Key) } }
        up   == SortKeys(keys)
    IN  [i \in DOMAIN up |-> up[Len(up) + 1 - i]]

\* Object.keys(sections).sort()
SortedPrefixes(fs) ==
    LET keys == { PrefixOf(fs[i].Key) : i \in { j \in DOMAIN fs :
                      Truthy(fs[j]) /\ PrefixMatch(fs[j].Key) } }
    IN  SortKeys(keys)

UnsortedPrefix == <<"u","n","s","o","r","t","e","d">>

UnsortedName == <<"U","n","s","o","r","t","e","d">>

sortFilesIntoSections(fs) ==
    LET prefixes == SortedPrefixes(fs)
        language == [i \in DOMAIN prefixes |->
                        [prefix      |-> prefixes[i],
                         displayName |-> toUpperCase(prefixes[i]),
                         files       |-> SortFiles(SectionBucket(fs, prefixes[i]))]]
        unsorted == UnsortedBucket(fs)
    IN  IF Len(unsorted) > 0
        THEN Append(language, [prefix      |-> UnsortedPrefix,
                               displayName |-> UnsortedName,
                               files       |-> SortFiles(unsorted)])
        ELSE language

------------------------------------------------------------------------------
(* The App component: state, effects, render *)

ConfigNames == {"accessKey", "secretKey", "region", "endpoint", "bucketName"}

KeyEnB == <<"e","n","-","b">>

KeyEsA == <<"e","s","-","a">>

\* response.Contents of the listings the backend may answer with
Listings ==
    { <<>>,
      <<Obj(KeyEsA)>>,
      <<Obj(KeyEsA), NoKeyObj, Obj(KeyEnB)>> }

NoResponse == [status |-> "none", Contents |-> <<>>, IsTruncated |-> FALSE]

\* the ListObjectsV2 outputs: a whole listing, or the first page of a longer
\* one (IsTruncated, which loadFiles logs and does not follow)
Responses ==
    { [status |-> "ok", Contents |-> l, IsTruncated |-> FALSE] : l \in Listings }
    \cup { [status |-> "ok", Contents |-> <<Obj(KeyEsA)>>, IsTruncated |-> TRUE] }

Procs == 1..MaxInvocations

IdleProc ==
    [pc |-> "idle", key |-> <<>>, signIssued |-> FALSE, url |-> "none",
     fetched |-> FALSE,
     total |-> 0, received |-> 0, loaded |-> 0, progress |-> 0,
     blobUrl |-> "none", download |-> <<>>, saved |-> FALSE, alerted |-> FALSE, outcome |-> "none", cause |-> "none"]

\* what a render captures: the closures of the handlers and the DOM it commits
Snapshot ==
    [s3Client         |-> s3Client,
     loading          |-> loading,
     error            |-> error,
     files            |-> files,
     fileSections     |-> fileSections,
     downloadingFiles |-> downloadingFiles]

Init ==
    /\ env \in [ConfigNames -> BOOLEAN]
    /\ s3Client = FALSE
    /\ loading = TRUE
    /\ error = "null"
    /\ files = <<>>
    /\ fileSections = <<>>
    /\ pcInit = "pending"
    /\ pcLoad = "idle"
    /\ response = NoResponse
    /\ downloadingFiles = {}
    /\ downloadProgress = <<>>
    /\ proc = [p \in Procs |-> IdleProc]
    /\ rendered = [s3Client |-> FALSE, loading |-> TRUE, error |-> "null",
                   files |-> <<>>, fileSections |-> <<>>, downloadingFiles |-> {}]

\* React re-renders App with the current state: new closures, new DOM
Render ==
    /\ rendered # Snapshot
    /\ rendered' = Snapshot
    /\ UNCHANGED <<env, response, s3Client, loading, error, files, fileSections, pcInit,
                   pcLoad, downloadingFiles, downloadProgress, proc>>

\* if (!accessKey || !secretKey)
CredentialsMissing == ~env["accessKey"] \/ ~env["secretKey"]

\* useEffect(() => {...}, []): initialise the S3 client
InitS3Client ==
    /\ pcInit = "pending"
    /\ pcInit' = "done"
    /\ IF CredentialsMissing
       THEN /\ error' = "config"
            /\ loading' = FALSE
            /\ UNCHANGED s3Client
       ELSE /\ s3Client' = TRUE
            /\ UNCHANGED <<error, loading>>
    /\ UNCHANGED <<env, response, files, fileSections, pcLoad, downloadingFiles,
                   downloadProgress, rendered, proc>>

\* useEffect(() => { if (!s3Client) return; loadFiles() }, [s3Client]) up to
\* await s3Client.send(command)
LoadFilesSend ==
    /\ rendered.s3Client
    /\ pcLoad = "idle"
    /\ loading' = TRUE
    /\ pcLoad' = "awaiting"
    /\ UNCHANGED <<env, response, s3Client, error, files, fileSections, pcInit,
                   downloadingFiles, downloadProgress, rendered, proc>>

\* a ListObjectsV2 request can be answered only when the client and the command
\* were built from a region, an endpoint and a bucket name
ListingCanSucceed == env["region"] /\ env["endpoint"] /\ env["bucketName"]

\* faulty variant: setLoading(false) at the end of the try block, no finally
LoadFilesFailNoFinally ==
    /\ pcLoad = "awaiting"
    /\ response' = [NoResponse EXCEPT !.status = "failed"]
    /\ error' = "load"
    /\ pcLoad' = "done"
    /\ UNCHANGED <<env, s3Client, loading, files, fileSections, pcInit,
                   downloadingFiles, downloadProgress, rendered, proc>>

\* loadFiles after the await: the response arrived; allFiles is
\* response.Contents || []
LoadFilesOk(resp) ==
    /\ pcLoad = "awaiting"
    /\ ListingCanSucceed
    /\ response' = resp
    /\ files' = resp.Contents
    /\ fileSections' = sortFilesIntoSections(resp.Contents)
    /\ loading' = FALSE
    /\ pcLoad' = "done"
    /\ UNCHANGED <<env, s3Client, error, pcInit, downloadingFiles,
                   downloadProgress, rendered, proc>>

\* loadFiles after the await: send threw (catch, finally)
LoadFilesFail ==
    /\ pcLoad = "awaiting"
    /\ response' = [NoResponse EXCEPT !.status = "failed"]
    /\ error' = "load"
    /\ loading' = FALSE
    /\ pcLoad' = "done"
    /\ UNCHANGED <<env, s3Client, files, fileSections, pcInit, downloadingFiles,
                   downloadProgress, rendered, proc>>

------------------------------------------------------------------------------
(* handleDownload *)

\* setDownloadingFiles(prev => new Set([...prev, key]))
SetAdd(prev, key) == prev \cup {key}

\* setDownloadingFiles(prev => { newSet.delete(key) })
SetDelete(prev, key) == prev \ {key}

\* setDownloadProgress(prev => new Map([...prev, [key, value]]))
MapSet(prev, key, value) ==
    [k \in DOMAIN prev \cup {key} |-> IF k = key THEN value ELSE prev[k]]

\* faulty variant: the finally block resets the whole map instead of deleting one key
MapDeleteAll(prev, key) == <<>>

\* setDownloadProgress(prev => { newMap.delete(key) })
MapDelete(prev, key) == [k \in DOMAIN prev \ {key} |-> prev[k]]

\* faulty variant: Math.floor((loaded / total) * 100)
ProgressFloor(loaded, total) == (100 * loaded) \div total

\* Math.round((loaded / total) * 100)
Progress(loaded, total) == (200 * loaded + total) \div (2 * total)

\* faulty variant: loaded = value.length, the running total is lost
NextLoadedAssigned(loaded, length) == length

\* loaded += value.length
NextLoaded(loaded, length) == loaded + length

\* the keys whose rows the last render shows: the table is rendered only when
\* neither loading nor error is set and files is not empty
RenderedKeys ==
    IF rendered.loading \/ rendered.error # "null" \/ Len(rendered.files) = 0
    THEN {}
    ELSE UNION { { f.Key : f \in Range(rendered.fileSections[i].files) } :
                 i \in DOMAIN rendered.fileSections }

\* disabled={downloadingFiles.has(file.Key || '')}
ButtonDisabled(key) == key \in rendered.downloadingFiles

\* if (downloadingFiles.has(key)): the set the handler's closure captured
AlreadyDownloading(key) == key \in rendered.downloadingFiles

\* the invocation record the next call of handleDownload uses
NextProc == CHOOSE p \in Procs : proc[p].pc = "idle" /\ \A q \in 1..p - 1 : proc[q].pc # "idle"

\* if (!s3Client) return '#': the client the closure captured
SignerAvailable == rendered.s3Client

\* onClick={() => file.Key && handleDownload(file.Key)}: handleDownload up to
\* await getSignedUrl(...) inside generateDownloadUrl
HandleDownload(key) ==
    /\ key \in RenderedKeys
    /\ key # <<>>
    /\ ~ButtonDisabled(key)
    /\ \E p \in Procs : proc[p].pc = "idle"
    /\ IF AlreadyDownloading(key)
       THEN UNCHANGED <<downloadingFiles, downloadProgress, proc>>
       ELSE /\ downloadingFiles' = SetAdd(downloadingFiles, key)
            /\ downloadProgress' = MapSet(downloadProgress, key, 0)
            /\ proc' = [proc EXCEPT ![NextProc] =
                           [@ EXCEPT !.pc = "signing", !.key = key,
                                     !.signIssued = SignerAvailable]]
    /\ UNCHANGED <<env, response, s3Client, loading, error, files, fileSections, pcInit,
                   pcLoad, rendered>>

\* finally { setDownloadingFiles(delete key); setDownloadProgress(delete key) }
\* and the invocation returns: its locals (total, loaded, progress) are gone
Finally(p, record) ==
    /\ proc' = [proc EXCEPT ![p] = [record EXCEPT !.pc = "done", !.total = 0,
                                                  !.received = 0, !.loaded = 0,
                                                  !.progress = 0]]
    /\ downloadingFiles' = SetDelete(downloadingFiles, proc[p].key)
    /\ downloadProgress' = MapDelete(downloadProgress, proc[p].key)

\* catch (error) { console.error(...); alert(`Download failed for ${key}...`) }
Catch(record, cause) ==
    [record EXCEPT !.alerted = TRUE, !.outcome = "failed", !.cause = cause]

\* if (url === '#') { console.error('Failed to generate download URL'); return }
SignFailed(record) ==
    [record EXCEPT !.url = "#", !.outcome = "failed", !.cause = "sign"]

\* createObjectURL, link.download = key, appendChild, click, removeChild,
\* revokeObjectURL; clicked = FALSE when attaching or clicking the link throws
SaveBlob(record, clicked) ==
    IF clicked
    THEN [record EXCEPT !.blobUrl = "revoked", !.download = record.key,
                        !.saved = TRUE, !.outcome = "saved"]
    ELSE Catch([record EXCEPT !.blobUrl = "live", !.download = record.key], "save")

\* faulty variant: the url === '#' test is missing, fetch('#') is issued
SignResolveUnchecked(p, signed) ==
    /\ proc[p].pc = "signing"
    /\ signed => proc[p].signIssued
    /\ proc' = [proc EXCEPT ![p] = [@ EXCEPT !.pc = "fetching", !.fetched = TRUE,
                                             !.url = IF signed THEN "signed" ELSE "#"]]
    /\ UNCHANGED <<env, response, s3Client, loading, error, files, fileSections, pcInit,
                   pcLoad, rendered, downloadingFiles, downloadProgress>>

\* generateDownloadUrl returned: a signed URL (signed = TRUE) or '#'
SignResolve(p, signed) ==
    /\ proc[p].pc = "signing"
    /\ signed => proc[p].signIssued
    /\ IF signed
       THEN /\ proc' = [proc EXCEPT ![p] = [@ EXCEPT !.pc = "fetching", !.url = "signed",
                                                    !.fetched = TRUE]]
            /\ UNCHANGED <<downloadingFiles, downloadProgress>>
       ELSE Finally(p, SignFailed(proc[p]))
    /\ UNCHANGED <<env, response, s3Client, loading, error, files, fileSections, pcInit,
                   pcLoad, rendered>>

\* fetch(url) rejected, or answered with !response.ok
FetchFail(p, cause) ==
    /\ proc[p].pc = "fetching"
    /\ Finally(p, Catch(proc[p], cause))
    /\ UNCHANGED <<env, response, s3Client, loading, error, files, fileSections, pcInit,
                   pcLoad, rendered>>

\* fetch(url) answered with response.ok: total = parseInt(content-length) or 0
FetchOk(p, total, hasBody) ==
    /\ proc[p].pc = "fetching"
    /\ proc' = [proc EXCEPT ![p] =
                   IF hasBody /\ total > 0
                   THEN [@ EXCEPT !.pc = "reading", !.total = total]
                   ELSE [@ EXCEPT !.pc = "blob", !.total = total]]
    /\ UNCHANGED <<env, response, s3Client, loading, error, files, fileSections, pcInit,
                   pcLoad, rendered, downloadingFiles, downloadProgress>>

\* reader.read() resolved with { done: false, value } of the given length
ReadChunk(p, length) ==
    /\ proc[p].pc = "reading"
    /\ length \in 1..(proc[p].total - proc[p].received)
    /\ LET loaded   == NextLoaded(proc[p].loaded, length)
           progress == Progress(loaded, proc[p].total)
       IN  /\ proc' = [proc EXCEPT ![p] = [@ EXCEPT !.received = @ + length,
                                                    !.loaded = loaded,
                                                    !.progress = progress]]
           /\ downloadProgress' = MapSet(downloadProgress, proc[p].key, progress)
    /\ UNCHANGED <<env, response, s3Client, loading, error, files, fileSections, pcInit,
                   pcLoad, rendered, downloadingFiles>>

\* reader.read() resolved with { done: true }: the body holds the bytes the
\* response declared
ReadDone(p, clicked) ==
    /\ proc[p].pc = "reading"
    /\ proc[p].received = proc[p].total
    /\ Finally(p, SaveBlob(proc[p], clicked))
    /\ UNCHANGED <<env, response, s3Client, loading, error, files, fileSections, pcInit,
                   pcLoad, rendered>>

\* faulty variant: the rejection is caught inside the while loop, which goes on
ReadErrorSwallowed(p) ==
    /\ proc[p].pc = "reading"
    /\ proc' = [proc EXCEPT ![p] = Catch(proc[p], "stream")]
    /\ UNCHANGED <<env, response, s3Client, loading, error, files, fileSections, pcInit,
                   pcLoad, rendered, downloadingFiles, downloadProgress>>

\* reader.read() rejected
ReadError(p) ==
    /\ proc[p].pc = "reading"
    /\ Finally(p, Catch(proc[p], "stream"))
    /\ UNCHANGED <<env, response, s3Client, loading, error, files, fileSections, pcInit,
                   pcLoad, rendered>>

\* await response.blob() resolved
BlobOk(p, clicked) ==
    /\ proc[p].pc = "blob"
    /\ Finally(p, SaveBlob(proc[p], clicked))
    /\ UNCHANGED <<env, response, s3Client, loading, error, files, fileSections, pcInit,
                   pcLoad, rendered>>

\* await response.blob() rejected
BlobError(p) ==
    /\ proc[p].pc = "blob"
    /\ Finally(p, Catch(proc[p], "stream"))
    /\ UNCHANGED <<env, response, s3Client, loading, error, files, fileSections, pcInit,
                   pcLoad, rendered>>

AllKeys == {KeyEnB, KeyEsA}

Next ==
    \/ Render
    \/ InitS3Client
    \/ LoadFilesSend
    \/ \E resp \in Responses : LoadFilesOk(resp)
    \/ LoadFilesFail
    \/ \E key \in AllKeys : HandleDownload(key)
    \/ \E p \in Procs, signed \in BOOLEAN : SignResolve(p, signed)
    \/ \E p \in Procs, cause \in {"network", "status"} : FetchFail(p, cause)
    \/ \E p \in Procs, total \in 0..MaxTotal, hasBody \in BOOLEAN : FetchOk(p, total, hasBody)
    \/ \E p \in Procs, length \in 1..MaxTotal : ReadChunk(p, length)
    \/ \E p \in Procs, clicked \in BOOLEAN : ReadDone(p, clicked)
    \/ \E p \in Procs : ReadError(p)
    \/ \E p \in Procs, clicked \in BOOLEAN : BlobOk(p, clicked)
    \/ \E p \in Procs : BlobError(p)

Spec == Init /\ [][Next]_vars

------------------------------------------------------------------------------
(* sortFilesIntoSections on its own: every input of bounded length *)

KeyPool ==
    { <<"e","n","-","a">>, <<"e","n","-","B">>, <<"e","n","-","b">>,
      <<"e","s","-","a">>, <<"d","e","-","1">>, <<"E","N","-","a">>,
      <<"e","-","a">>, <<"e","n","_","a">>, <<"e","n","x","-","a">>,
      <<"a",".","b">>, <<>> }

\* S3Objects with pairwise different keys, one of them without a Key
ObjectPool == { Obj(k) : k \in KeyPool } \cup { NoKeyObj }

Injective(s) == \A i, j \in DOMAIN s : s[i] = s[j] => i = j

Inputs ==
    { s \in UNION { [1..n -> ObjectPool] : n \in 0..MaxFiles } : Injective(s) }

InitClassify ==
    /\ env = [n \in ConfigNames |-> TRUE]
    /\ s3Client = TRUE
    /\ loading = TRUE
    /\ error = "null"
    /\ files \in Inputs
    /\ fileSections = <<>>
    /\ pcInit = "done"
    /\ pcLoad = "idle"
    /\ response = NoResponse
    /\ downloadingFiles = {}
    /\ downloadProgress = <<>>
    /\ proc = [p \in Procs |-> IdleProc]
    /\ rendered = [s3Client |-> TRUE, loading |-> TRUE, error |-> "null",
                   files |-> <<>>, fileSections |-> <<>>, downloadingFiles |-> {}]

\* const sections = sortFilesIntoSections(allFiles)
Classify ==
    /\ pcLoad = "idle"
    /\ fileSections' = sortFilesIntoSections(files)
    /\ pcLoad' = "done"
    /\ UNCHANGED <<env, response, s3Client, loading, error, files, pcInit, downloadingFiles,
                   downloadProgress, rendered, proc>>

NextClassify == Classify

SpecClassify == InitClassify /\ [][NextClassify]_vars

------------------------------------------------------------------------------
(* Properties of sortFilesIntoSections, under SpecClassify *)

Classified == pcLoad = "done"

\* how often a record occurs in a sequence
Count(x, s) == Cardinality({ i \in DOMAIN s : s[i] = x })

\* how often a record occurs in the sections, taken together
Occurrences(x, sections) ==
    LET RECURSIVE Sum(_)
        Sum(n) == IF n = 0 THEN 0 ELSE Count(x, sections[n].files) + Sum(n - 1)
    IN  Sum(Len(sections))

MemberSet(sections) == UNION { Range(sections[i].files) : i \in DOMAIN sections }

\* C4 as stated: every input record appears in exactly one section exactly
\* once, and no section holds a record that was not in the input.
C4_EveryRecordExactlyOnce ==
    Classified =>
        /\ \A i \in DOMAIN files : Occurrences(files[i], fileSections) = 1
        /\ MemberSet(fileSections) \subseteq Range(files)

\* C4 amended: every input record with a non-empty Key appears in exactly one
\* section exactly once, a record without a Key (undefined or '') appears in
\* none, no section holds a record that was not in the input, and the keys of
\* the sections' members are exactly the non-empty keys of the input.
C4_KeyedRecordsExactlyOnce ==
    Classified =>
        /\ \A i \in DOMAIN files :
              Occurrences(files[i], fileSections) = IF Truthy(files[i]) THEN 1 ELSE 0
        /\ MemberSet(fileSections) \subseteq Range(files)
        /\ { m.Key : m \in MemberSet(fileSections) }
             = { files[i].Key : i \in { j \in DOMAIN files : Truthy(files[j]) } }

\* a classified input with a record without a Key, a prefixed and an unprefixed one
C4_Witness ==
    /\ Classified
    /\ Len(files) = 3
    /\ NoKeyObj \in Range(files)
    /\ Len(fileSections) = 2
    /\ fileSections[2].prefix = UnsortedPrefix
    /\ Len(fileSections[1].files) = 1

IsUnsortedSection(section) == section.prefix = UnsortedPrefix

\* alphabetical order of two two-letter prefixes
PrefixBefore(a, b) ==
    \/ IndexOf(Lower, a[1]) < IndexOf(Lower, b[1])
    \/ a[1] = b[1] /\ IndexOf(Lower, a[2]) < IndexOf(Lower, b[2])

\* the input records that fall into the 'unsorted' section
FallsIntoUnsorted(file) ==
    /\ file.hasKey
    /\ file.Key # <<>>
    /\ ~(Len(file.Key) >= 3 /\ IsLower(file.Key[1]) /\ IsLower(file.Key[2])
         /\ file.Key[3] = "-")

\* C5: the prefix sections come first, in strictly ascending lexicographic
\* order of their two-letter prefix, one per distinct prefix of the input; the
\* 'unsorted' section is last when a record falls into it and absent
\* otherwise; an empty input gives an empty result.
C5_SectionOrdering ==
    Classified =>
        LET n == Len(fileSections) IN
        /\ \A i \in 1..n : IsUnsortedSection(fileSections[i]) => i = n
        /\ \A i \in 1..n : ~IsUnsortedSection(fileSections[i]) =>
              /\ Len(fileSections[i].prefix) = 2
              /\ IsLower(fileSections[i].prefix[1])
              /\ IsLower(fileSections[i].prefix[2])
              /\ \E j \in DOMAIN files :
                    /\ files[j].hasKey
                    /\ Len(files[j].Key) >= 3
                    /\ SubSeq(files[j].Key, 1, 2) = fileSections[i].prefix
        /\ \A i \in 1..n - 1 : ~IsUnsortedSection(fileSections[i + 1]) =>
              PrefixBefore(fileSections[i].prefix, fileSections[i + 1].prefix)
        /\ \A j \in DOMAIN files :
              (files[j].hasKey /\ files[j].Key # <<>> /\ ~FallsIntoUnsorted(files[j])) =>
                 \E i \in 1..n : fileSections[i].prefix = SubSeq(files[j].Key, 1, 2)
        /\ (n > 0 /\ IsUnsortedSection(fileSections[n]))
              <=> (\E j \in DOMAIN files : FallsIntoUnsorted(files[j]))
        /\ \A i \in 1..n : Len(fileSections[i].files) > 0
        /\ files = <<>> => fileSections = <<>>

\* three sections from an input that lists the later prefix first
C5_Witness ==
    /\ Classified
    /\ Len(files) = 3
    /\ files[1].Key = <<"e","s","-","a">>
    /\ files[3].Key = <<"d","e","-","1">>
    /\ Len(fileSections) = 3
    /\ fileSections[1].prefix = <<"d","e">>
    /\ fileSections[2].prefix = <<"e","s">>
    /\ IsUnsortedSection(fileSections[3])

\* the input records in another order
Orderings(n) == { f \in [1..n -> 1..n] : \A i, j \in 1..n : f[i] = f[j] => i = j }

Reordered(s, f) == [i \in DOMAIN s |-> s[f[i]]]

------------------------------------------------------------------------------
(* Properties of the download handler and the effects, under Spec *)

\* an invocation that has started and has reached neither Saved nor Failed
Active(p) == proc[p].pc \notin {"idle", "done"}

HasEntry(key) == key \in downloadingFiles \/ key \in DOMAIN downloadProgress

\* C1 as stated: a handleDownload(k) invoked while an earlier one is active
\* starts nothing, so at most one download per key is active at any time.
C1_OneActiveDownloadPerKey ==
    \A p, q \in Procs :
        (p # q /\ Active(p) /\ Active(q)) => proc[p].key # proc[q].key

\* C2 as stated: when a download of k reaches Saved or Failed, k is absent
\* from downloadingFiles and downloadProgress, and an absent k gets an entry
\* again only by the start of a new download of k.
C2_AbsentUntilNewDownload ==
    [][ /\ \A p \in Procs :
              (proc[p].pc # "done" /\ proc'[p].pc = "done") =>
                  /\ proc[p].key \notin downloadingFiles'
                  /\ proc[p].key \notin DOMAIN downloadProgress'
        /\ \A key \in AllKeys :
              (~HasEntry(key) /\ HasEntry(key)') =>
                  \E p \in Procs : /\ proc[p].pc = "idle"
                                   /\ proc'[p].pc = "signing"
                                   /\ proc'[p].key = key ]_vars

C7_IsolationBetweenKeys ==
    [][ \A p \in Procs :
            proc'[p] # proc[p] =>
                \A other \in AllKeys \ {proc'[p].key} :
                    /\ (other \in downloadingFiles') <=> (other \in downloadingFiles)
                    /\ (other \in DOMAIN downloadProgress')
                           <=> (other \in DOMAIN downloadProgress)
                    /\ other \in DOMAIN downloadProgress =>
                           downloadProgress'[other] = downloadProgress[other] ]_vars

\* one key's download has failed mid-stream while another key's download is
\* under way with its progress in place
C7_Witness ==
    \E p, q \in Procs :
        /\ proc[p].key # proc[q].key
        /\ proc[p].pc = "done"
        /\ proc[p].cause = "stream"
        /\ proc[q].pc = "reading"
        /\ proc[q].loaded > 0
        /\ proc[q].key \in downloadingFiles
        /\ downloadProgress = (proc[q].key :> proc[q].progress)

\* C8: a download whose signed URL was not obtained is Failed without a fetch,
\* without a chunk read and without a save.
C8_SigningFailureAborts ==
    \A p \in Procs :
        proc[p].url = "#" =>
            /\ proc[p].pc = "done"
            /\ proc[p].outcome = "failed"
            /\ ~proc[p].fetched
            /\ proc[p].loaded = 0
            /\ proc[p].blobUrl = "none"
            /\ ~proc[p].saved

\* the signer threw for a key, and its entries are gone
C8_Witness ==
    \E p \in Procs :
        /\ proc[p].url = "#"
        /\ proc[p].signIssued
        /\ proc[p].outcome = "failed"
        /\ ~HasEntry(proc[p].key)

\* C9 as stated: every download that ends in Failed has shown a failure
\* message to the user.
C9_EveryFailureSurfaced ==
    \A p \in Procs : proc[p].outcome = "failed" => proc[p].alerted

\* C10 as stated: when one of the five configuration values is absent no
\* listing request is ever sent, and once loading is over a configuration
\* error is reported.
C10_ConfigurationValidated ==
    (\E n \in ConfigNames : ~env[n]) =>
        /\ pcLoad = "idle"
        /\ ~loading => error = "config"

\* what C11 says of every listing, truncated or not: nothing is classified
\* before a response arrives; after a failed call files and fileSections are
\* still empty, an error is set and loading is cleared; after a successful
\* call the classifier got the whole response.Contents.
ListingShortCircuits ==
    /\ pcLoad \in {"idle", "awaiting"} => (files = <<>> /\ fileSections = <<>>)
    /\ (pcLoad = "done" /\ response.status = "failed") =>
          /\ files = <<>>
          /\ fileSections = <<>>
          /\ error = "load"
          /\ ~loading
    /\ (pcLoad = "done" /\ response.status = "ok") =>
          /\ files = response.Contents
          /\ fileSections = sortFilesIntoSections(response.Contents)
          /\ error = "null"
          /\ ~loading

\* C11 as stated: in addition, sortFilesIntoSections is never invoked with a
\* truncated listing.
C11_NeverClassifiesTruncated ==
    /\ ListingShortCircuits
    /\ (pcLoad = "done" /\ response.status = "ok") => ~response.IsTruncated

\* C11 amended: sortFilesIntoSections is invoked only with the whole Contents
\* of a successful response, which may be the first page of a truncated
\* listing; when the listing call fails it is not invoked, files and
\* fileSections stay empty, an error message is set and loading is cleared.
C11_ListingFailureShortCircuits ==
    /\ ListingShortCircuits
    /\ response.IsTruncated => fileSections = sortFilesIntoSections(response.Contents)

\* the listing call has failed
C11_Witness ==
    /\ pcLoad = "done"
    /\ response.status = "failed"
    /\ error = "load"
    /\ ~loading
    /\ fileSections = <<>>

\* the steps of one invocation: Idle, Requesting-URL (signing), Streaming
\* (fetching, then reading or blob), and done with outcome Saved or Failed
StateOrder ==
    { <<"idle", "signing">>, <<"signing", "fetching">>, <<"fetching", "reading">>,
      <<"fetching", "blob">>, <<"reading", "reading">>,
      <<"signing", "done">>, <<"fetching", "done">>, <<"reading", "done">>,
      <<"blob", "done">> }

\* C12: an invocation moves only along Idle, Requesting-URL, Streaming,
\* Assembling, Saved, or from a non-Idle state to Failed: the fetch is issued
\* only with a signed URL, a chunk is read only while streaming, the blob is
\* assembled and saved only when the stream has signalled completion, and
\* after Saved or Failed the invocation does nothing more.
C12_DownloadStateOrder ==
    [][ /\ \A p \in Procs :
              /\ proc'[p] # proc[p] => <<proc[p].pc, proc'[p].pc>> \in StateOrder
              /\ (proc'[p].fetched /\ ~proc[p].fetched) =>
                     (proc[p].pc = "signing" /\ proc'[p].url = "signed")
              /\ proc'[p].received # proc[p].received =>
                     (proc[p].pc = "reading" /\ proc[p].fetched)
              /\ proc'[p].blobUrl # proc[p].blobUrl =>
                     /\ proc[p].pc \in {"reading", "blob"}
                     /\ proc[p].pc = "reading" => proc[p].received = proc[p].total
                     /\ proc'[p].pc = "done"
              /\ proc'[p].saved => (proc'[p].outcome = "saved" /\ proc'[p].blobUrl # "none")
              /\ proc'[p].outcome # "none" => proc'[p].pc = "done"
              /\ proc'[p].pc = "done" => proc'[p].outcome \in {"saved", "failed"}
              /\ proc[p].pc = "done" => proc'[p] = proc[p]
        /\ (downloadProgress' # downloadProgress \/ downloadingFiles' # downloadingFiles) =>
              \E p \in Procs : proc[p].pc # "done" /\ proc'[p] # proc[p] ]_vars

\* a download that went through signing, fetch and the reader loop to Saved
\* beside one that failed
C12_Witness ==
    \E p, q \in Procs :
        /\ proc[p].pc = "done"
        /\ proc[p].outcome = "saved"
        /\ proc[p].url = "signed"
        /\ proc[p].fetched
        /\ proc[p].blobUrl = "revoked"
        /\ proc[q].pc = "done"
        /\ proc[q].outcome = "failed"
        /\ proc[q].cause = "stream"

\* a step in which invocation p has read a chunk
ReadsChunk(p) == proc'[p].received # proc[p].received /\ proc'[p].pc = "reading"

\* without a declared total (or without a body) the invocation writes no
\* progress and buffers the body in one step
BufferedInOneStep(p) ==
    /\ (proc[p].pc = "fetching" /\ proc'[p].pc \in {"reading", "blob"}) =>
           /\ proc'[p].pc = "reading" => proc'[p].total > 0
           /\ proc'[p].total = 0 => proc'[p].pc = "blob"
           /\ proc'[p].progress = 0
           /\ UNCHANGED downloadProgress
    /\ proc[p].pc = "blob" =>
           /\ proc[p].progress = 0
           /\ proc[p].received = 0
           /\ proc'[p] # proc[p] => proc'[p].pc = "done"

\* C13 as stated: after every chunk the value stored for the key is
\* floor(bytesReadSoFar / total * 100).
C13_ProgressIsFloor ==
    [][ \A p \in Procs :
            /\ ReadsChunk(p) =>
                   LET v == downloadProgress'[proc[p].key]
                       n == proc'[p].received
                       t == proc[p].total
                   IN  v * t <= 100 * n /\ 100 * n < (v + 1) * t
            /\ BufferedInOneStep(p) ]_vars

\* C13 amended: after every chunk the value stored for the key is
\* bytesReadSoFar / total * 100 rounded to the nearest integer, a half rounded
\* up (Math.round); without a declared total nothing but the initial 0 is
\* written and the body is buffered in one step.
C13_ProgressIsRounded ==
    [][ \A p \in Procs :
            /\ ReadsChunk(p) =>
                   LET v == downloadProgress'[proc[p].key]
                       n == proc'[p].received
                       t == proc[p].total
                   IN  /\ t > 0
                       /\ 2 * v * t <= 200 * n + t
                       /\ 200 * n + t < 2 * (v + 1) * t
            /\ BufferedInOneStep(p) ]_vars

\* two of three bytes read: 67 is stored, where floor gives 66
C13_Witness ==
    \E p \in Procs :
        /\ proc[p].pc = "reading"
        /\ proc[p].total = 3
        /\ proc[p].received = 2
        /\ downloadProgress[proc[p].key] = 67

\* C14 as stated: once a download is Saved or Failed, the blob URL it created
\* has been revoked, also when attaching or clicking the link failed, and the
\* file name of the save action is the key.
C14_BlobUrlReleased ==
    \A p \in Procs :
        proc[p].pc = "done" =>
            /\ proc[p].blobUrl # "live"
            /\ proc[p].blobUrl # "none" => proc[p].download = proc[p].key

\* C15 as stated: the keys with an entry in downloadProgress are exactly the
\* keys in downloadingFiles.
C15_ProgressKeysAreDownloading ==
    DOMAIN downloadProgress = downloadingFiles

====
